---- MODULE Spec2Model ----
(***************************************************************************)
(* PyBOM: the BOM graph builder (BOM.parse_parent_child) and the queries   *)
(* over the resolved tree (BOM.parts, BOM.assemblies, BOM.flat, BOM.QTY,   *)
(* BOM.aggregate) of src/pybom/BOM.py.                                     *)
(*                                                                         *)
(* Objects are named by what identifies them in the program: a BOM by its  *)
(* key in the `assemblies` dict, an Item by its key in PartsDB.parts.  An  *)
(* ItemLink is a fresh object per row; it is identified by its place in a  *)
(* children list and carries its target.  The tree library (anytree) is    *)
(* modelled by what NodeMixin's parent and children setters do: they       *)
(* compare nodes by identity, refuse a loop (LoopError) and refuse the     *)
(* same node twice in one children list (TreeError).                       *)
(***************************************************************************)
EXTENDS Integers, Sequences, FiniteSets, TLC

\* Python's None.
None == "None"

\* ---------------------------------------------------------------- bounds
\* Names the assembly mapping may use as keys, in insertion order; a mapping
\* holds the first n of them.  A name that is no key and no part is a PN
\* that is "absent from both the parts database and the assembly set".
AssemblyNames == <<"R", "S", "T">>
\* The PNs of the parts table.
PartNames == {"P1", "P2"}
\* The values a QTY cell may hold.
QTYs == {1, 2}
\* The number of rows of all assembly tables together.
MaxRows == 3

PNs == {AssemblyNames[i] : i \in 1..Len(AssemblyNames)} \cup PartNames
Rows == [PN : PNs, QTY : QTYs]

\* ----------------------------------------------------------------- state
VARIABLES
    assemblies,     \* parse_parent_child's argument: the dict's keys, in order
    df,             \* BOM.df of every assembly: its rows, in file order
    parts_db,       \* the PartsDB: [parts: the PNs it holds an Item for]
    parent,         \* NodeMixin.parent of every BOM and Item (a BOM's PN, or None)
    children,       \* NodeMixin.children of every BOM
    item_type,      \* BOM.item_type of every assembly
    bom_parts_db,   \* BOM.parts_db of every assembly: TRUE when the PartsDB is attached
    pc,             \* "loop" | "done" (returned) | "error" (raised)
    bi,             \* position of the outer loop in `assemblies`
    ri,             \* position of the inner loop in bom.df
    local_children, \* the local list `children` of parse_parent_child
    result,         \* the BOM parse_parent_child returned, or None
    error,          \* the exception it raised, or None
    ret             \* the last query on the resolved tree and what it returned

input == <<assemblies, df, parts_db>>
tree == <<parent, children, item_type, bom_parts_db>>
control == <<pc, bi, ri, local_children, result, error>>
vars == <<assemblies, df, parts_db, parent, children, item_type, bom_parts_db,
          pc, bi, ri, local_children, result, error, ret>>

\* ----------------------------------------------------------------- nodes
\* A BOM or an Item, as it stands in a children list.
Node(cls, pn) == [cls |-> cls, PN |-> pn, target |-> None]
\* An ItemLink: PN is what SymlinkNodeMixin.__getattr__ forwards to the target.
ItemLink(target) == [cls |-> "ItemLink", PN |-> target.PN, target |-> target.cls]
\* The node an entry of a children list stands for: itself, or a link's target.
Target(c) == IF c.cls = "ItemLink" THEN Node(c.target, c.PN) ELSE c

Keys == {assemblies[i] : i \in 1..Len(assemblies)}
BOMs == {Node("BOM", a) : a \in Keys}
Items == {Node("Item", p) : p \in parts_db.parts}

\* BOM.__len__ makes a BOM without children falsy: `if x.parent:`.
bool(p) == p # None /\ Len(children[p]) > 0

\* PartsDB.get: the Item of a PN; None (no exception) when there is none.
found(PN) == PN \in parts_db.parts
get(PN) == Node("Item", PN)

\* The result of a query that has not been made.
NoQuery == [op |-> None, self |-> None, exc |-> None, list |-> <<>>, dict |-> {}]

\* ------------------------------------------------------------------ Init
\* The state after single_file / from_folder built the PartsDB and one BOM
\* per assembly table: no node has a parent, a BOM has no children, no
\* item_type and no parts_db.
Init ==
    \E n \in 0..Len(AssemblyNames), len \in 0..MaxRows :
    \E rows \in [1..len -> Rows], cut \in [0..n -> 0..len] :
        /\ cut[0] = 0
        /\ cut[n] = len
        /\ \A i \in 1..n : cut[i-1] <= cut[i]
        /\ assemblies = SubSeq(AssemblyNames, 1, n)
        /\ df = [a \in {AssemblyNames[i] : i \in 1..n} |->
                   LET i == CHOOSE j \in 1..n : AssemblyNames[j] = a
                   IN  SubSeq(rows, cut[i-1] + 1, cut[i])]
        /\ parts_db = [parts |-> PartNames]
        /\ parent = [x \in {Node("BOM", AssemblyNames[i]) : i \in 1..n}
                            \cup {Node("Item", p) : p \in PartNames} |-> None]
        /\ children = [a \in {AssemblyNames[i] : i \in 1..n} |-> <<>>]
        /\ item_type = [a \in {AssemblyNames[i] : i \in 1..n} |-> None]
        /\ bom_parts_db = [a \in {AssemblyNames[i] : i \in 1..n} |-> FALSE]
        /\ pc = "loop"
        /\ bi = 1
        /\ ri = 1
        /\ local_children = <<>>
        /\ result = None
        /\ error = None
        /\ ret = NoQuery

\* ------------------------------------------------- anytree: NodeMixin
\* NodeMixin.iter_path_reverse: a BOM and its ancestors, as PNs.
RECURSIVE iter_path_reverse(_)
iter_path_reverse(a) ==
    {a} \cup (IF parent[Node("BOM", a)] = None THEN {}
              ELSE iter_path_reverse(parent[Node("BOM", a)]))

\* NodeMixin.__check_loop: `node.parent = value` raises LoopError when value is
\* node itself or node is among value's ancestors.
check_loop(node, value) == node = value \/ node \in iter_path_reverse(value)

\* NodeMixin.__check_children: TreeError when one node object comes twice.
\* Two ItemLinks are never the same object.
check_children(new) ==
    \E i, j \in 1..Len(new) : i < j /\ new[i] = new[j] /\ new[i].cls # "ItemLink"

\* The nodes (no links) of a children list.
NodesOf(s) == {s[i] : i \in {j \in 1..Len(s) : s[j].cls # "ItemLink"}}

\* set_children as a setter that attaches the new children behind the ones
\* already attached instead of detaching those first.
set_children_keep_attached(bom, new) ==
    children[bom] \o SelectSeq(new, LAMBDA c : c \notin NodesOf(children[bom]))

\* NodeMixin.children setter, the list it leaves on the node: the old children
\* are detached first, then every new child is attached in the list's order.
set_children(bom, new) == new

\* NodeMixin.children setter, the parents it leaves: None for a detached old
\* child, bom for every BOM or Item of the new list.
set_children_parent(bom, new) ==
    [x \in DOMAIN parent |->
        IF x \in NodesOf(new) THEN bom
        ELSE IF x \in NodesOf(children[bom]) THEN None
        ELSE parent[x]]

\* ------------------------------------------------ parse_parent_child
bom == assemblies[bi]
row == df[bom][ri]
InRow == pc = "loop" /\ bi <= Len(assemblies) /\ ri <= Len(df[bom])

Raise(e) ==
    /\ pc' = "error"
    /\ error' = e
    /\ UNCHANGED <<bi, ri, local_children, result>>

NextRow(child) ==
    /\ local_children' = Append(local_children, child)
    /\ ri' = ri + 1
    /\ UNCHANGED <<pc, bi, result, error>>

\* AssemblyRowLink as a builder that moves a reused assembly under the
\* assembly that names it last.
AssemblyRowLink_reparent ==
    /\ InRow
    /\ row.PN \in Keys
    /\ bool(parent[Node("BOM", row.PN)])
    /\ ~check_loop(row.PN, bom)
    /\ parent' = [parent EXCEPT ![Node("BOM", row.PN)] = bom]
    /\ children' = [a \in DOMAIN children |->
                      IF a = bom THEN Append(children[a], Node("BOM", row.PN))
                      ELSE SelectSeq(children[a], LAMBDA c : c # Node("BOM", row.PN))]
    /\ NextRow(Node("BOM", row.PN))
    /\ UNCHANGED <<input, item_type, bom_parts_db, ret>>

\* BOM.py:372-376: the row names an assembly that already has a parent.
AssemblyRowLink ==
    /\ InRow
    /\ row.PN \in Keys
    /\ bool(parent[Node("BOM", row.PN)])
    /\ NextRow(ItemLink(Node("BOM", row.PN)))
    /\ UNCHANGED <<input, tree, ret>>

\* AssemblyRowAttach as a builder that leaves the item_type of the attached
\* assembly as it was.
AssemblyRowAttach_untyped ==
    /\ InRow
    /\ row.PN \in Keys
    /\ ~bool(parent[Node("BOM", row.PN)])
    /\ ~check_loop(row.PN, bom)
    /\ parent' = [parent EXCEPT ![Node("BOM", row.PN)] = bom]
    /\ children' = [children EXCEPT ![bom] = Append(@, Node("BOM", row.PN))]
    /\ NextRow(Node("BOM", row.PN))
    /\ UNCHANGED <<input, item_type, bom_parts_db, ret>>

\* BOM.py:377-380: the row names an assembly without a parent; the parent
\* setter attaches it to bom at once.
AssemblyRowAttach ==
    /\ InRow
    /\ row.PN \in Keys
    /\ ~bool(parent[Node("BOM", row.PN)])
    /\ ~check_loop(row.PN, bom)
    /\ parent' = [parent EXCEPT ![Node("BOM", row.PN)] = bom]
    /\ children' = [children EXCEPT ![bom] = Append(@, Node("BOM", row.PN))]
    /\ item_type' = [item_type EXCEPT ![row.PN] = "assembly"]
    /\ NextRow(Node("BOM", row.PN))
    /\ UNCHANGED <<input, bom_parts_db, ret>>

\* BOM.py:378: the parent setter refuses a loop; nothing catches the LoopError.
AssemblyRowLoopError ==
    /\ InRow
    /\ row.PN \in Keys
    /\ ~bool(parent[Node("BOM", row.PN)])
    /\ check_loop(row.PN, bom)
    /\ Raise("LoopError")
    /\ UNCHANGED <<input, tree, ret>>

\* BOM.py:382-387: PartsDB.get returns None for an unknown PN and raises no
\* IndexError, so the except clause is not entered and `part_.parent` raises
\* AttributeError.
PartRowNotFound ==
    /\ InRow
    /\ row.PN \notin Keys
    /\ ~found(row.PN)
    /\ Raise("AttributeError")
    /\ UNCHANGED <<input, tree, ret>>

\* PartRowLink as a builder that places the Item again instead of a link.
PartRowLink_place ==
    /\ InRow
    /\ row.PN \notin Keys
    /\ found(row.PN)
    /\ bool(parent[get(row.PN)])
    /\ NextRow(get(row.PN))
    /\ UNCHANGED <<input, tree, ret>>

\* BOM.py:387-389: the part already has a parent.
PartRowLink ==
    /\ InRow
    /\ row.PN \notin Keys
    /\ found(row.PN)
    /\ bool(parent[get(row.PN)])
    /\ NextRow(ItemLink(get(row.PN)))
    /\ UNCHANGED <<input, tree, ret>>

\* BOM.py:390-391: the part has no parent; it gets one at BOM.py:392.
PartRowPlace ==
    /\ InRow
    /\ row.PN \notin Keys
    /\ found(row.PN)
    /\ ~bool(parent[get(row.PN)])
    /\ NextRow(get(row.PN))
    /\ UNCHANGED <<input, tree, ret>>

AtRowsEnd == pc = "loop" /\ bi <= Len(assemblies) /\ ri > Len(df[bom])

\* BOM.py:392: bom.children = children.
SetChildren ==
    /\ AtRowsEnd
    /\ ~check_children(local_children)
    /\ children' = [children EXCEPT ![bom] = set_children(bom, local_children)]
    /\ parent' = set_children_parent(bom, local_children)
    /\ bi' = bi + 1
    /\ ri' = 1
    /\ local_children' = <<>>
    /\ UNCHANGED <<input, item_type, bom_parts_db, pc, result, error, ret>>

\* BOM.py:392: the same Item twice in the list; the setter raises TreeError
\* before it changes anything.
SetChildrenTreeError ==
    /\ AtRowsEnd
    /\ check_children(local_children)
    /\ Raise("TreeError")
    /\ UNCHANGED <<input, tree, ret>>

\* BOM.py:395: the assemblies without a parent, in the dict's order.
is_root(a) == parent[Node("BOM", a)] = None
root == SelectSeq(assemblies, is_root)

AtRoot == pc = "loop" /\ bi > Len(assemblies)

\* RootNotSingular as a builder that takes the first of several roots.
RootNotSingular_first ==
    /\ AtRoot
    /\ Len(root) > 1
    /\ bom_parts_db' = [bom_parts_db EXCEPT ![root[1]] = TRUE]
    /\ result' = root[1]
    /\ pc' = "done"
    /\ UNCHANGED <<input, parent, children, item_type, bi, ri, local_children,
                   error, ret>>

\* BOM.py:396-397.
RootNotSingular ==
    /\ AtRoot
    /\ Len(root) > 1
    /\ Raise("Singular root BOM not found.")
    /\ UNCHANGED <<input, tree, ret>>

\* RootNotFound as a builder that returns nothing instead of raising.
RootNotFound_returns_none ==
    /\ AtRoot
    /\ ~(Len(root) > 1)
    /\ Len(root) = 0
    /\ pc' = "done"
    /\ UNCHANGED <<input, tree, bi, ri, local_children, result, error, ret>>

\* BOM.py:398-399.
RootNotFound ==
    /\ AtRoot
    /\ ~(Len(root) > 1)
    /\ Len(root) = 0
    /\ Raise("No root BOM found.")
    /\ UNCHANGED <<input, tree, ret>>

\* ReturnRoot as a builder that gives every assembly the parts database.
ReturnRoot_every_assembly ==
    /\ AtRoot
    /\ ~(Len(root) > 1)
    /\ ~(Len(root) = 0)
    /\ bom_parts_db' = [a \in DOMAIN bom_parts_db |-> TRUE]
    /\ result' = root[1]
    /\ pc' = "done"
    /\ UNCHANGED <<input, parent, children, item_type, bi, ri, local_children,
                   error, ret>>

\* BOM.py:400-402.
ReturnRoot ==
    /\ AtRoot
    /\ ~(Len(root) > 1)
    /\ ~(Len(root) = 0)
    /\ bom_parts_db' = [bom_parts_db EXCEPT ![root[1]] = TRUE]
    /\ result' = root[1]
    /\ pc' = "done"
    /\ UNCHANGED <<input, parent, children, item_type, bi, ri, local_children,
                   error, ret>>

\* ------------------------------------------------------------ queries
\* child_item_type as a read that does not follow a link to its target.
child_item_type_unlinked(c) ==
    IF c.cls = "ItemLink" THEN None
    ELSE IF c.cls = "Item" THEN "part" ELSE item_type[c.PN]

\* item_type as read through a children entry: an Item is built with
\* item_type 'part' (BOM.py:418), a BOM has what parse_parent_child gave it,
\* and an ItemLink forwards the read to its target.
child_item_type(c) ==
    IF Target(c).cls = "Item" THEN "part" ELSE item_type[Target(c).PN]

IsPart(c) == child_item_type(c) = "part"
IsAssembly(c) == child_item_type(c) = "assembly"

\* BOM.parts: a new list of the direct children of kind 'part'.
BOM_parts(a) == SelectSeq(children[a], IsPart)

\* BOM.assemblies: a new list of the direct children of kind 'assembly'.
BOM_assemblies(a) == SelectSeq(children[a], IsAssembly)

\* BOM.QTY: the QTY of the first row of this assembly's table with that PN,
\* None when there is none.
QTY(a, PN) ==
    LET hits == {i \in 1..Len(df[a]) : df[a][i].PN = PN}
    IN  IF hits = {} THEN None
        ELSE df[a][CHOOSE i \in hits : \A j \in hits : i <= j].QTY

\* The assemblies the recursion of flat and aggregate enters from a set of
\* assemblies in at most k further calls.
RECURSIVE entered(_, _)
entered(S, k) ==
    IF k = 0 THEN S
    ELSE entered(S \cup UNION {{c.PN : c \in {children[x][i] : i \in
                      {j \in 1..Len(children[x]) : IsAssembly(children[x][j])}}}
                                : x \in S}, k - 1)

\* The assemblies flat and aggregate of `a` call themselves on.
below(a) == entered({children[a][i].PN : i \in
                      {j \in 1..Len(children[a]) : IsAssembly(children[a][j])}},
                    Len(assemblies))

\* The recursion of flat and aggregate does not end when it comes back to an
\* assembly it is in: Python raises RecursionError.
RecursionError(a) == \E x \in {a} \cup below(a) : x \in below(x)

\* flat as a walk that enters each sub-assembly where it stands among the
\* children instead of after all direct parts.
RECURSIVE flat_preorder_walk(_)
flat_preorder_walk(cs) ==
    IF cs = <<>> THEN <<>>
    ELSE (IF IsPart(Head(cs)) THEN <<Head(cs)>>
          ELSE IF IsAssembly(Head(cs)) THEN flat_preorder_walk(children[Head(cs).PN])
          ELSE <<>>) \o flat_preorder_walk(Tail(cs))
flat_preorder(a) == flat_preorder_walk(children[a])

\* BOM.flat, when the recursion ends.
RECURSIVE flat(_)
RECURSIVE flat_assemblies(_)
flat_assemblies(as) ==
    IF as = <<>> THEN <<>>
    ELSE flat(Head(as).PN) \o flat_assemblies(Tail(as))
flat(a) == BOM_parts(a) \o flat_assemblies(BOM_assemblies(a))

\* children_after_flat as a flat whose `items` is the children list itself, so
\* that `items += ...` extends the node's children.
children_after_flat_aliased(a) == [children EXCEPT ![a] = flat(a)]

\* BOM.py:173-176: `items += ...` extends the list BOM.parts built, a new
\* object, so flat leaves every children list as it was.
children_after_flat(a) == children

\* Counter.update({k: v}): add v to the count of k.
update(parts, k, v) ==
    [x \in DOMAIN parts \cup {k} |->
        (IF x \in DOMAIN parts THEN parts[x] ELSE 0) + (IF x = k THEN v ELSE 0)]

\* BOM.py:219-220: for p in self.parts: parts.update({p.PN: self.QTY(p.PN)}).
RECURSIVE count_parts(_, _, _)
count_parts(a, ps, parts) ==
    IF ps = <<>> THEN parts
    ELSE count_parts(a, Tail(ps), update(parts, Head(ps).PN, QTY(a, Head(ps).PN)))

\* merge as a rollup that adds a sub-assembly's counts without multiplying
\* them by the sub-assembly's own QTY.
merge_unmultiplied(parts, sub, q) ==
    [x \in DOMAIN parts \cup DOMAIN sub |->
        (IF x \in DOMAIN parts THEN parts[x] ELSE 0)
        + (IF x \in DOMAIN sub THEN sub[x] ELSE 0)]

\* BOM.py:223-224: for k, v in bom.aggregate.items(): parts.update({k: v*q}).
merge(parts, sub, q) ==
    [x \in DOMAIN parts \cup DOMAIN sub |->
        (IF x \in DOMAIN parts THEN parts[x] ELSE 0)
        + (IF x \in DOMAIN sub THEN sub[x] * q ELSE 0)]

\* BOM.aggregate of an assembly without parts_db (every assembly but the
\* returned root): the Counter, keyed by PN string.
RECURSIVE Counter(_)
RECURSIVE count_assemblies(_, _, _)
count_assemblies(a, as, parts) ==
    IF as = <<>> THEN parts
    ELSE count_assemblies(a, Tail(as),
                          merge(parts, Counter(Head(as).PN), QTY(a, Head(as).PN)))
Counter(a) == count_assemblies(a, BOM_assemblies(a), count_parts(a, BOM_parts(a), <<>>))

\* A key of the mapping aggregate returns: a PN string, or an Item object.
StrKey(PN) == [type |-> "str", PN |-> PN]
ItemKey(PN) == [type |-> "Item", PN |-> PN]

\* BOM.py:225: the Counter itself, or a dict keyed by parts_db.get(k) when
\* this assembly has the parts database.
aggregate(a) ==
    LET parts == Counter(a)
    IN  IF bom_parts_db[a]
        THEN {[key |-> ItemKey(get(k).PN), count |-> parts[k]] : k \in DOMAIN parts}
        ELSE {[key |-> StrKey(k), count |-> parts[k]] : k \in DOMAIN parts}

\* A caller reads .flat of an assembly of the resolved tree.
Flat(a) ==
    /\ pc = "done"
    /\ ret' = IF RecursionError(a)
              THEN [op |-> "flat", self |-> a, exc |-> "RecursionError",
                    list |-> <<>>, dict |-> {}]
              ELSE [op |-> "flat", self |-> a, exc |-> None,
                    list |-> flat(a), dict |-> {}]
    /\ children' = IF RecursionError(a) THEN children ELSE children_after_flat(a)
    /\ UNCHANGED <<input, parent, item_type, bom_parts_db, control>>

\* ------------------------------------------------------------ QTY query
\* A cell of a table or a value a query returns: an integer, NaN (the null of
\* a numeric column and of an empty input cell), None, or a text.
Num(n) == [kind |-> "num", v |-> n]
NaN == [kind |-> "nan", v |-> 0]
PyNone == [kind |-> "None", v |-> 0]
Text == [kind |-> "str", v |-> 0]
\* pd.isnull
isnull(c) == c.kind \in {"nan", "None"}


\* The PNs a caller asks QTY for: an assembly name and a part name, each of
\* them in some tables and not in others.
QueryPNs == {"S", "P1"}


\* QTY_cell as a lookup that gives 0 when the table has no row for the PN.
QTY_cell_zero(a, PN) ==
    IF \E i \in 1..Len(df[a]) : df[a][i].PN = PN THEN Num(QTY(a, PN)) ELSE Num(0)

\* BOM.py:183-187: what a caller of QTY gets: the value of BOM.py:184, or
\* None once the IndexError of an empty selection is caught.
QTY_cell(a, PN) ==
    IF \E i \in 1..Len(df[a]) : df[a][i].PN = PN THEN Num(QTY(a, PN)) ELSE PyNone

\* A caller reads QTY(PN) of an assembly of the resolved tree.
ReadQTY(a, PN) ==
    /\ pc = "done"
    /\ ret' = [op |-> "QTY", self |-> a, exc |-> None, list |-> <<>>,
               dict |-> {[PN |-> PN, QTY |-> QTY_cell(a, PN)]}]
    /\ UNCHANGED <<input, tree, control>>


\* A caller reads .aggregate of an assembly of the resolved tree.
Aggregate(a) ==
    /\ pc = "done"
    /\ ret' = IF RecursionError(a)
              THEN [op |-> "aggregate", self |-> a, exc |-> "RecursionError",
                    list |-> <<>>, dict |-> {}]
              ELSE [op |-> "aggregate", self |-> a, exc |-> None,
                    list |-> <<>>, dict |-> aggregate(a)]
    /\ UNCHANGED <<input, tree, control>>

Next ==
    \/ AssemblyRowLink
    \/ AssemblyRowAttach
    \/ AssemblyRowLoopError
    \/ PartRowNotFound
    \/ PartRowLink
    \/ PartRowPlace
    \/ SetChildren
    \/ SetChildrenTreeError
    \/ RootNotSingular
    \/ RootNotFound
    \/ ReturnRoot
    \/ \E a \in Keys : Flat(a)
    \/ \E a \in Keys : Aggregate(a)
    \/ \E a \in Keys, PN \in QueryPNs : ReadQTY(a, PN)

Spec == Init /\ [][Next]_vars

\* ----------------------------------------------------- summary queries
\* The assembly names, row values and row count of the inputs on which
\* summary is explored: small assembly tables, parts tables of every shape.
QueryAssemblyNames == <<"R", "S">>
QueryQTYs == {3}
QueryRows == [PN : {"R", "S"} \cup PartNames, QTY : QueryQTYs]
MaxQueryRows == 2

\* The parts tables of those inputs.  Besides PN a table may have the columns
\* 'Pkg QTY', 'Pkg Price' and 'Cost'; the row of P1 holds NaN, a number or
\* (Pkg QTY) a text in them, the row of P2 holds NaN.
PartsTables ==
    {[c \in cols |-> IF c = "Pkg QTY" THEN q ELSE IF c = "Pkg Price" THEN pr ELSE co] :
        cols \in SUBSET {"Pkg QTY", "Pkg Price", "Cost"},
        q \in {NaN, Num(2), Text}, pr \in {NaN, Num(3)}, co \in {NaN, Num(5)}}

\* The state after single_file built the PartsDB from such a parts table and
\* one BOM per assembly table.
InitQueries ==
    \E n \in 0..Len(QueryAssemblyNames), len \in 0..MaxQueryRows :
    \E rows \in [1..len -> QueryRows], cut \in [0..n -> 0..len], p1 \in PartsTables :
        /\ cut[0] = 0
        /\ cut[n] = len
        /\ \A i \in 1..n : cut[i-1] <= cut[i]
        /\ assemblies = SubSeq(QueryAssemblyNames, 1, n)
        /\ df = [a \in {QueryAssemblyNames[i] : i \in 1..n} |->
                   LET i == CHOOSE j \in 1..n : QueryAssemblyNames[j] = a
                   IN  SubSeq(rows, cut[i-1] + 1, cut[i])]
        /\ parts_db = [parts |-> PartNames,
                       df |-> [p \in PartNames |->
                                 IF p = "P1" THEN p1 ELSE [c \in DOMAIN p1 |-> NaN]]]
        /\ parent = [x \in {Node("BOM", QueryAssemblyNames[i]) : i \in 1..n}
                            \cup {Node("Item", p) : p \in PartNames} |-> None]
        /\ children = [a \in {QueryAssemblyNames[i] : i \in 1..n} |-> <<>>]
        /\ item_type = [a \in {QueryAssemblyNames[i] : i \in 1..n} |-> None]
        /\ bom_parts_db = [a \in {QueryAssemblyNames[i] : i \in 1..n} |-> FALSE]
        /\ pc = "loop"
        /\ bi = 1
        /\ ri = 1
        /\ local_children = <<>>
        /\ result = None
        /\ error = None
        /\ ret = NoQuery

\* PartsDB.fields: the columns of the parts table (PN left out).
fields == UNION {DOMAIN parts_db.df[p] : p \in parts_db.parts}

\* A table with one column set (added, or overwritten) to the given cells.
with_column(table, col, cells) ==
    [p \in DOMAIN table |->
        [c \in DOMAIN table[p] \cup {col} |-> IF c = col THEN cells[p] ELSE table[p][c]]]

\* The Series DataFrame.apply builds from the values a row function returned:
\* None stays None when every value is None and becomes NaN beside numbers.
apply_result(cells) ==
    IF \A p \in DOMAIN cells : cells[p].kind = "None" THEN cells
    ELSE [p \in DOMAIN cells |-> IF cells[p].kind = "None" THEN NaN ELSE cells[p]]

\* BOM.py:254: counts = { k.PN: v for k, v in self.aggregate.items() }.
counts(a) ==
    LET agg == aggregate(a)
    IN  [P \in {e.key.PN : e \in agg} |-> (CHOOSE e \in agg : e.key.PN = P).count]

\* counts_get as a lookup with 0 for a part that is placed nowhere.
counts_get_zero(c, PN) ==
    IF PN \in DOMAIN c THEN Num(c[PN]) ELSE Num(0)

\* BOM.py:256: counts.get(row.PN).
counts_get(c, PN) ==
    IF PN \in DOMAIN c THEN Num(c[PN]) ELSE PyNone

\* What a row function did: returned a value, or raised.
Returns(c) == [exc |-> None, value |-> c]
Raises(e) == [exc |-> e, value |-> PyNone]

\* ceil_div as a floor division.
ceil_div_floor(t, k) == t \div k

\* math.ceil(t / k) for integers t >= 0 and k > 0.
ceil_div(t, k) == (t + k - 1) \div k

\* BOM.py:235-242.  Total QTY / Pkg QTY raises TypeError when one of them is
\* None or a text; ceil of NaN raises ValueError, the one exception caught.
packages_to_buy(r) ==
    IF "Pkg QTY" \notin DOMAIN r \/ isnull(r["Pkg QTY"]) THEN Returns(r["Total QTY"])
    ELSE IF r["Total QTY"].kind = "None" \/ r["Pkg QTY"].kind = "str"
         THEN Raises("TypeError")
    ELSE IF r["Total QTY"].kind = "nan" THEN Returns(Num(0))
    ELSE Returns(Num(ceil_div(r["Total QTY"].v, r["Pkg QTY"].v)))

\* Purchase QTY * price: NaN when the quantity is NaN, TypeError when it is None.
times(qty, price) ==
    IF qty.kind = "None" THEN Raises("TypeError")
    ELSE IF qty.kind = "nan" THEN Returns(NaN)
    ELSE Returns(Num(qty.v * price.v))

\* subtotal as a row function that takes the unit cost before the package
\* price.
subtotal_cost_first(r) ==
    IF "Cost" \in DOMAIN r /\ ~isnull(r["Cost"])
    THEN times(r["Purchase QTY"], r["Cost"])
    ELSE IF "Pkg Price" \in DOMAIN r /\ ~isnull(r["Pkg Price"])
    THEN times(r["Purchase QTY"], r["Pkg Price"])
    ELSE Returns(NaN)

\* BOM.py:244-251.
subtotal(r) ==
    IF "Pkg Price" \in DOMAIN r /\ ~isnull(r["Pkg Price"])
    THEN times(r["Purchase QTY"], r["Pkg Price"])
    ELSE IF "Cost" \in DOMAIN r /\ ~isnull(r["Cost"])
    THEN times(r["Purchase QTY"], r["Cost"])
    ELSE Returns(NaN)

\* BOM.py:255-256: the parts table after df['Total QTY'] = ... .
with_total(a) ==
    LET c == counts(a)
    IN  with_column(parts_db.df, "Total QTY",
                    apply_result([p \in parts_db.parts |-> counts_get(c, p)]))

\* BOM.py:257: the parts table after df['Purchase QTY'] = ..., when no row raised.
with_purchase(t) ==
    with_column(t, "Purchase QTY",
                apply_result([p \in DOMAIN t |-> packages_to_buy(t[p]).value]))

\* BOM.py:258: the parts table after df['Subtotal'] = ..., when no row raised.
with_subtotal(t) ==
    with_column(t, "Subtotal",
                apply_result([p \in DOMAIN t |-> subtotal(t[p]).value]))

\* BOM.py:254-259.  self.aggregate is read first; an assembly other than the
\* returned root has no parts_db and str keys, so line 254 or 255 raises
\* AttributeError.  df is the parts database's own table: every column is
\* assigned to it in place, the ones before a raising row function included.
summary(a) ==
    IF RecursionError(a) THEN [exc |-> "RecursionError", df |-> parts_db.df]
    ELSE IF ~bom_parts_db[a] THEN [exc |-> "AttributeError", df |-> parts_db.df]
    ELSE LET t1 == with_total(a)
         IN  IF \E p \in DOMAIN t1 : packages_to_buy(t1[p]).exc # None
             THEN [exc |-> "TypeError", df |-> t1]
             ELSE LET t2 == with_purchase(t1)
                  IN  IF \E p \in DOMAIN t2 : subtotal(t2[p]).exc # None
                      THEN [exc |-> "TypeError", df |-> t2]
                      ELSE [exc |-> None, df |-> with_subtotal(t2)]

\* A caller reads .summary of an assembly of the resolved tree.
Summary(a) ==
    /\ pc = "done"
    /\ LET s == summary(a)
       IN  /\ ret' = [op |-> "summary", self |-> a, exc |-> s.exc, list |-> <<>>,
                      dict |-> IF s.exc # None THEN {}
                               ELSE {[PN |-> p, row |-> s.df[p]] : p \in parts_db.parts}]
           /\ parts_db' = [parts_db EXCEPT !.df = s.df]
    /\ UNCHANGED <<assemblies, df, tree, control>>

NextQueries ==
    \/ Next
    \/ \E a \in Keys : Summary(a)

SpecQueries == InitQueries /\ [][NextQueries]_vars

\* ------------------------------------------------ loading the parts table
\* The longest parts table that is loaded.
MaxPartRows == 2

\* BOM.py:418: { row.PN: Item(**row) for _, row in df.iterrows() } from row i
\* on, d being the dict so far: an entry names the row its Item was built
\* from, and a later row with the same PN replaces the entry.
RECURSIVE dict_comprehension(_, _, _)
dict_comprehension(t, i, d) ==
    IF i > Len(t) THEN d
    ELSE dict_comprehension(t, i + 1, {e \in d : e.PN # t[i]} \cup {[PN |-> t[i], row |-> i]})

\* The state when single_file starts: the PN column of the parts table (rows
\* may repeat a PN), the assembly tables, nothing built yet.
InitLoad ==
    \E n \in 0..Len(QueryAssemblyNames), len \in 0..MaxQueryRows, plen \in 0..MaxPartRows :
    \E rows \in [1..len -> QueryRows], cut \in [0..n -> 0..len],
       t \in [1..plen -> PartNames] :
        /\ cut[0] = 0
        /\ cut[n] = len
        /\ \A i \in 1..n : cut[i-1] <= cut[i]
        /\ assemblies = SubSeq(QueryAssemblyNames, 1, n)
        /\ df = [a \in {QueryAssemblyNames[i] : i \in 1..n} |->
                   LET i == CHOOSE j \in 1..n : QueryAssemblyNames[j] = a
                   IN  SubSeq(rows, cut[i-1] + 1, cut[i])]
        /\ parts_db = [df |-> t, parts |-> {}, kwargs |-> {}]
        /\ parent = [x \in {Node("BOM", QueryAssemblyNames[i]) : i \in 1..n} |-> None]
        /\ children = [a \in {QueryAssemblyNames[i] : i \in 1..n} |-> <<>>]
        /\ item_type = [a \in {QueryAssemblyNames[i] : i \in 1..n} |-> None]
        /\ bom_parts_db = [a \in {QueryAssemblyNames[i] : i \in 1..n} |-> FALSE]
        /\ pc = "init"
        /\ bi = 1
        /\ ri = 1
        /\ local_children = <<>>
        /\ result = None
        /\ error = None
        /\ ret = NoQuery

\* BOM.py:340 and 416-418: PartsDB(df) keeps the table and builds one Item per
\* key of the dict; the new Items have no parent.  Nothing is raised.
PartsDB_init ==
    /\ pc = "init"
    /\ LET d == dict_comprehension(parts_db.df, 1, {})
       IN  /\ parts_db' = [df |-> parts_db.df, parts |-> {e.PN : e \in d}, kwargs |-> d]
           /\ parent' = [x \in DOMAIN parent \cup {Node("Item", e.PN) : e \in d} |->
                           IF x \in DOMAIN parent THEN parent[x] ELSE None]
    /\ pc' = "loop"
    /\ UNCHANGED <<assemblies, df, children, item_type, bom_parts_db,
                   bi, ri, local_children, result, error, ret>>

NextLoad ==
    \/ PartsDB_init
    \/ Next

SpecLoad == InitLoad /\ [][NextLoad]_vars

\* ============================================================== claims
\* What the rows say, for the statements below.
Resolvable(r) == r.PN \in Keys \/ found(r.PN)
\* The node a row's PN stands for: an assembly key wins over a part.
RowNode(PN) == IF PN \in Keys THEN Node("BOM", PN) ELSE Node("Item", PN)
RowCount(a, PN) == Cardinality({i \in 1..Len(df[a]) : df[a][i].PN = PN})
ChildCount(a, c) == Cardinality({i \in 1..Len(children[a]) : children[a][i] = c})
\* The assemblies whose table names a PN.
Refs(PN) == {a \in Keys : RowCount(a, PN) > 0}
Roots == {a \in Keys : parent[Node("BOM", a)] = None}
Returned == pc = "done"
AllTablesRead == pc # "loop" /\ bi > Len(assemblies)

\* C1: whenever parse_parent_child has returned, exactly one assembly of the
\* mapping has no parent, the returned node is that assembly and it has the
\* parts database.
C1_ReturnedRootIsTheOnlyRoot ==
    Returned =>
        /\ Cardinality(Roots) = 1
        /\ result \in Roots
        /\ bom_parts_db[result]

\* A resolve of three assemblies has returned.
C1_Witness == Returned /\ Len(assemblies) = 3 /\ ret.op = None

\* C2: when all tables have been read and the number of assemblies without a
\* parent is not one (more than one, or none as for an empty mapping),
\* parse_parent_child has raised and has returned no tree.
C2_RootCardinalityAborts ==
    (AllTablesRead /\ Cardinality(Roots) # 1) =>
        /\ pc = "error"
        /\ result = None
        /\ error = IF Cardinality(Roots) > 1 THEN "Singular root BOM not found."
                   ELSE "No root BOM found."

\* Two assemblies are left without a parent and resolve has raised.
C2_Witness == AllTablesRead /\ Cardinality(Roots) = 2 /\ pc = "error"

\* The empty mapping: no root, and resolve has raised.
C2_WitnessEmpty == AllTablesRead /\ assemblies = <<>> /\ pc = "error"

\* C4: after resolve, a part that the tables of two or more assemblies name has
\* its Item as a direct child of exactly one of them, once; each of the others
\* holds no Item for it but an ItemLink whose target is that Item; so for two
\* assemblies one holds the Item and the other the link.
C4_OneItemOthersLink ==
    Returned =>
        \A P \in parts_db.parts \ Keys :
            Cardinality(Refs(P)) >= 2 =>
                \E owner \in Refs(P) :
                    /\ ChildCount(owner, Node("Item", P)) = 1
                    /\ parent[Node("Item", P)] = owner
                    /\ \A a \in Keys \ {owner} :
                          /\ ChildCount(a, Node("Item", P)) = 0
                          /\ a \in Refs(P) =>
                                ChildCount(a, ItemLink(Node("Item", P))) >= 1

\* Resolve has returned and exactly two assemblies name the same part.
C4_Witness ==
    Returned /\ ret.op = None
    /\ \E P \in parts_db.parts \ Keys : Cardinality(Refs(P)) = 2

\* The first assembly, in processing order, whose table names a PN.
FirstRef(PN) ==
    assemblies[CHOOSE i \in 1..Len(assemblies) :
                  /\ assemblies[i] \in Refs(PN)
                  /\ \A j \in 1..Len(assemblies) : assemblies[j] \in Refs(PN) => i <= j]

\* C5: no step of resolve changes a parent that has been set; when resolve has
\* returned, every node with a parent is owned by the first assembly in
\* processing order whose table names it, where it stands once, and every
\* other row that names it has given an ItemLink to it.
C5_ParentSetOnce ==
    /\ [][\A x \in DOMAIN parent : parent[x] # None => parent'[x] = parent[x]]_vars
    /\ [](Returned =>
            \A x \in DOMAIN parent :
                /\ parent[x] # None <=> (Refs(x.PN) # {} /\ RowNode(x.PN) = x)
                /\ parent[x] # None =>
                      /\ parent[x] = FirstRef(x.PN)
                      /\ \A a \in Keys :
                            /\ ChildCount(a, x) = IF a = parent[x] THEN 1 ELSE 0
                            /\ ChildCount(a, ItemLink(x)) + ChildCount(a, x)
                                  = RowCount(a, x.PN))

\* Resolve has returned a tree in which an assembly that has a parent is named
\* again by a later row, which holds an ItemLink to it.
C5_Witness ==
    Returned /\ ret.op = None
    /\ \E a, b \in Keys :
          /\ parent[Node("BOM", b)] # None
          /\ parent[Node("BOM", b)] # a
          /\ ChildCount(a, ItemLink(Node("BOM", b))) = 1

\* C6: resolve does not fail at a row whose PN is neither an assembly key nor
\* in the parts database.
C6_UnknownRowDoesNotFail ==
    ~(/\ pc = "error"
      /\ bi <= Len(assemblies)
      /\ ri <= Len(df[bom])
      /\ ~Resolvable(row))

\* C8: the children of every assembly whose table has been read are, in order,
\* the nodes of its resolvable rows: one child per such row, in row order.
C8_ChildrenInRowOrder ==
    \A k \in 1..Len(assemblies) :
        (k < bi) =>
            LET a == assemblies[k]
                rs == SelectSeq(df[a], Resolvable)
            IN  /\ Len(children[a]) = Len(rs)
                /\ \A i \in 1..Len(rs) : Target(children[a][i]) = RowNode(rs[i].PN)

\* Resolve has returned and some assembly has a sub-assembly, attached while
\* its rows were read, behind a part that was attached after the loop.
C8_Witness ==
    Returned /\ ret.op = None
    /\ \E a \in Keys :
          /\ Len(children[a]) >= 2
          /\ children[a][1].cls = "Item"
          /\ children[a][2].cls = "BOM"

\* ------------------------------------------------------- placements
\* A placement of a part below an assembly is a path of child positions: all
\* but the last step enter a sub-assembly (directly or through an ItemLink),
\* the last one names a part.  A visit is a path of sub-assembly steps only.
MaxWidth ==
    LET lens == {Len(children[a]) : a \in Keys}
    IN  IF lens = {} THEN 0 ELSE CHOOSE m \in lens : \A l \in lens : l <= m
\* Every path that can exist when no assembly is entered twice on one path.
PathSet == UNION {[1..k -> 1..MaxWidth] : k \in 1..Len(assemblies)}

\* The QTY of the row that gave the i-th child of an assembly.
PlacementQTY(a, i) == SelectSeq(df[a], Resolvable)[i].QTY

NoPlacement == [ok |-> FALSE, part |-> FALSE, leaf |-> Node(None, None), qty |-> 0]

\* Where a path from an assembly leads: whether it exists, whether it ends at
\* a part (else at a sub-assembly), the children entry it ends at and the
\* product of the QTYs of the rows along it.
RECURSIVE Walk(_, _)
Walk(a, p) ==
    IF p[1] > Len(children[a]) THEN NoPlacement
    ELSE LET c == children[a][p[1]]
         IN  IF Len(p) = 1
             THEN [ok |-> IsPart(c) \/ IsAssembly(c), part |-> IsPart(c),
                   leaf |-> c, qty |-> PlacementQTY(a, p[1])]
             ELSE IF ~IsAssembly(c) THEN NoPlacement
             ELSE LET w == Walk(c.PN, Tail(p))
                  IN  [w EXCEPT !.qty = @ * PlacementQTY(a, p[1])]

Placements(a) == {p \in PathSet : Walk(a, p).ok /\ Walk(a, p).part}
\* The visits of the assemblies below a, and of a itself (the empty path).
Visits(a) == {<<>>} \cup {p \in PathSet : Walk(a, p).ok /\ ~Walk(a, p).part}
Visited(a, v) == IF v = <<>> THEN a ELSE Walk(a, v).leaf.PN
PlacedPNs(a) == {Walk(a, p).leaf.PN : p \in Placements(a)}

\* The order of the claim: the direct parts in child order come before
\* everything below a sub-assembly; sub-assemblies follow in child order.
RECURSIVE Before(_, _)
Before(p, q) ==
    IF Len(p) = 1 /\ Len(q) = 1 THEN p[1] < q[1]
    ELSE IF Len(p) = 1 THEN TRUE
    ELSE IF Len(q) = 1 THEN FALSE
    ELSE p[1] < q[1] \/ (p[1] = q[1] /\ Before(Tail(p), Tail(q)))

Rank(a, p) == 1 + Cardinality({q \in Placements(a) : Before(q, p)})

RECURSIVE SumQty(_, _)
SumQty(a, S) ==
    IF S = {} THEN 0
    ELSE LET p == CHOOSE x \in S : TRUE
         IN  Walk(a, p).qty + SumQty(a, S \ {p})

\* The sum, over the placements of a part below an assembly, of the product
\* of the QTYs along the path.
Total(a, P) == SumQty(a, {p \in Placements(a) : Walk(a, p).leaf.PN = P})

\* Every table lists each PN at most once.
EachPNOncePerTable ==
    \A a \in Keys : \A i, j \in 1..Len(df[a]) : i < j => df[a][i].PN # df[a][j].PN

FlatReturned == ret.op = "flat" /\ ret.exc = None
AggregateReturned == ret.op = "aggregate" /\ ret.exc = None

\* C3: when every table lists each PN at most once, what aggregate returns
\* gives every part placed below the assembly, and no other, the sum over its
\* placements (Item or ItemLink, through owned or linked sub-assemblies) of
\* the product of the QTYs along the path, each read from the row of the
\* containing assembly's own table: r + p*q for a part used r times in R and
\* p times in S, with S used q times in R.
C3_AggregateSumsProducts ==
    (AggregateReturned /\ EachPNOncePerTable) =>
        {<<e.key.PN, e.count>> : e \in ret.dict}
            = {<<P, Total(ret.self, P)>> : P \in PlacedPNs(ret.self)}

\* aggregate was read on the returned root R, which holds a part directly and
\* a sub-assembly, used twice, that holds the same part twice: r + 2*2.
C3_Witness ==
    /\ AggregateReturned
    /\ ret.self = result
    /\ EachPNOncePerTable
    /\ \E i, j, k \in 1..MaxWidth :
          LET direct == Walk(result, <<i>>)
              sub == Walk(result, <<j>>)
              nested == Walk(result, <<j, k>>)
          IN  /\ direct.ok /\ direct.part
              /\ sub.ok /\ ~sub.part /\ sub.qty = 2
              /\ nested.ok /\ nested.part /\ nested.qty = 4
              /\ nested.leaf.PN = direct.leaf.PN
              /\ \E e \in ret.dict :
                    e.key.PN = direct.leaf.PN /\ e.count = direct.qty + 4

\* C7: what flat returns holds one entry per placement of a part, the direct
\* parts in child order first and then what flat gives for each sub-assembly
\* in child order, ItemLinks followed like their targets; its length is the
\* sum of the direct part counts over the visits, an assembly counted once for
\* each way it is reached.
C7_FlatIsPartsThenSubAssemblies ==
    FlatReturned =>
        LET a == ret.self
        IN  /\ Len(ret.list) = Cardinality(Placements(a))
            /\ \A p \in Placements(a) : ret.list[Rank(a, p)] = Walk(a, p).leaf
            /\ Len(ret.list)
                 = Cardinality({<<v, i>> \in Visits(a) \X (1..MaxWidth) :
                                    i <= Len(BOM_parts(Visited(a, v)))})

\* flat was read on an assembly whose first child is a sub-assembly holding a
\* part and whose direct part stands behind it.
C7_Witness ==
    /\ FlatReturned
    /\ Len(children[ret.self]) >= 2
    /\ IsAssembly(children[ret.self][1])
    /\ IsPart(children[ret.self][2])
    /\ Len(ret.list) >= 2
    /\ ret.list[1] = children[ret.self][2]

\* C9: what aggregate returns on the returned root is indexed by part-number
\* strings: its keys are exactly the PN strings of the parts placed in the tree.
C9_RootAggregateKeyedByPNString ==
    (AggregateReturned /\ ret.self = result) =>
        {e.key : e \in ret.dict} = {StrKey(P) : P \in PlacedPNs(result)}

\* C10: a read of flat or aggregate changes no node's children, parent,
\* item_type or parts_db reference, no row table and not the parts database;
\* and a read that repeats the one before it returns the same.
C10_QueriesArePure ==
    /\ [][pc = "done" => UNCHANGED <<input, tree>>]_vars
    /\ [][(ret'.op \in {"flat", "aggregate"} /\ ret'.op = ret.op /\ ret'.self = ret.self)
              => ret' = ret]_vars

\* flat has returned more than the direct parts: `items += assem.flat` has
\* extended the list.
C10_Witness ==
    FlatReturned /\ Len(ret.list) > Len(BOM_parts(ret.self))

\* C11: reading summary leaves the parts database as it was: PartsDB.fields
\* gains none of the columns Total QTY, Purchase QTY and Subtotal.
C11_SummaryLeavesPartsDBUnchanged ==
    fields \cap {"Total QTY", "Purchase QTY", "Subtotal"} = {}

\* The query a caller made last is QTY(PN) of assembly a.
QTYRead(a, PN) == ret.op = "QTY" /\ ret.self = a /\ \E e \in ret.dict : e.PN = PN
\* What that query returned.
QTYReturned == (CHOOSE e \in ret.dict : TRUE).QTY

C12_WitnessOwnRow ==
    \E a, b \in Keys, PN \in QueryPNs :
        /\ QTYRead(a, PN)
        /\ RowCount(a, PN) = 1
        /\ RowCount(b, PN) = 1
        /\ QTY(a, PN) # QTY(b, PN)
        /\ QTYReturned = Num(QTY(a, PN))

\* C13: QTY(PN) of an assembly whose table has no row for the PN returns 0.
C13_QTYOfMissingRowIsZero ==
    \A a \in Keys, PN \in QueryPNs :
        (QTYRead(a, PN) /\ RowCount(a, PN) = 0) => QTYReturned = Num(0)

\* C14: on every tree parse_parent_child returns, flat and aggregate of every
\* assembly return: the recursion ends, on inputs with a reference cycle too.
C14_FlatAndAggregateReturn ==
    (Returned /\ ret.op \in {"flat", "aggregate"}) => ret.exc = None

\* C15: when a table lists the same part PN in two rows, parse_parent_child
\* goes on: the first row places the Item, the later row adds an ItemLink, so
\* no Item is twice among the children being collected and the assignment of
\* the children raises nothing.
C15_SecondRowOfAPartIsALink ==
    /\ \A i, j \in 1..Len(local_children) :
          (i < j /\ local_children[i].cls = "Item") => local_children[j] # local_children[i]
    /\ error # "TreeError"

\* summary has returned its table.
SummaryReturned == ret.op = "summary" /\ ret.exc = None
\* The row of a part in the table summary returned.
SummaryRow(P) == (CHOOSE e \in ret.dict : e.PN = P).row

\* C16: in the table summary returns, the Total QTY of every row of the parts
\* table is the count aggregate gives that PN on the same assembly, and null
\* for a part aggregate does not count (one placed nowhere in the tree).
C16_TotalQTYIsTheAggregateCount ==
    SummaryReturned =>
        \A P \in parts_db.parts :
            LET hits == {e \in aggregate(ret.self) : e.key.PN = P}
            IN  /\ hits # {} => \A e \in hits : SummaryRow(P)["Total QTY"] = Num(e.count)
                /\ hits = {} => isnull(SummaryRow(P)["Total QTY"])
                /\ hits # {} <=> P \in PlacedPNs(ret.self)

\* summary returned a table in which one part has the product of two row QTYs
\* as Total QTY and the other part, placed nowhere, has null.
C16_Witness ==
    /\ SummaryReturned
    /\ \E P, U \in parts_db.parts :
          /\ SummaryRow(P)["Total QTY"].kind = "num"
          /\ SummaryRow(P)["Total QTY"].v > 3
          /\ U \notin PlacedPNs(ret.self)
          /\ isnull(SummaryRow(U)["Total QTY"])

\* C17: in the table summary returns, a row with a non-null Total QTY t has
\* as Purchase QTY the ceiling of t / k when its Pkg QTY is a number k, the
\* least n with n * k >= t, and t itself when the table has no Pkg QTY column
\* or the row's Pkg QTY is null.
C17_PurchaseQTYIsTheCeiling ==
    SummaryReturned =>
        \A P \in parts_db.parts :
            LET r == SummaryRow(P)
                t == r["Total QTY"]
            IN  ~isnull(t) =>
                    IF "Pkg QTY" \in DOMAIN r /\ r["Pkg QTY"].kind = "num"
                    THEN /\ r["Purchase QTY"].kind = "num"
                         /\ r["Purchase QTY"].v * r["Pkg QTY"].v >= t.v
                         /\ (r["Purchase QTY"].v - 1) * r["Pkg QTY"].v < t.v
                    ELSE r["Purchase QTY"] = t

\* summary returned a row whose Total QTY is no multiple of its Pkg QTY, so
\* the Purchase QTY is rounded up.
C17_Witness ==
    /\ SummaryReturned
    /\ \E P \in parts_db.parts :
          /\ "Pkg QTY" \in DOMAIN SummaryRow(P)
          /\ SummaryRow(P)["Pkg QTY"].kind = "num"
          /\ SummaryRow(P)["Total QTY"].kind = "num"
          /\ SummaryRow(P)["Total QTY"].v % SummaryRow(P)["Pkg QTY"].v # 0
          /\ SummaryRow(P)["Purchase QTY"].v > 1

\* summary returned a table with a Pkg QTY column in which a placed part has
\* a null Pkg QTY and its Total QTY as Purchase QTY.
C17_WitnessNull ==
    /\ SummaryReturned
    /\ \E P \in parts_db.parts :
          /\ "Pkg QTY" \in DOMAIN SummaryRow(P)
          /\ isnull(SummaryRow(P)["Pkg QTY"])
          /\ SummaryRow(P)["Total QTY"].kind = "num"
          /\ SummaryRow(P)["Purchase QTY"] = SummaryRow(P)["Total QTY"]

\* C18: when the Pkg QTY of a row of the parts table is a text, summary of the
\* returned root raises nothing and returns a table in which that row's
\* Purchase QTY is 0.
C18_TextPkgQTYGivesZero ==
    (ret.op = "summary" /\ ret.self = result) =>
        \A P \in parts_db.parts :
            ("Pkg QTY" \in DOMAIN parts_db.df[P] /\ parts_db.df[P]["Pkg QTY"] = Text) =>
                /\ ret.exc = None
                /\ SummaryRow(P)["Purchase QTY"] = Num(0)

\* The price the claim gives a row: its Pkg Price when the table has that
\* column and the cell is not null, else its Cost under the same condition,
\* else NaN.
PriceOf(r) ==
    IF "Pkg Price" \in DOMAIN r /\ ~isnull(r["Pkg Price"]) THEN r["Pkg Price"]
    ELSE IF "Cost" \in DOMAIN r /\ ~isnull(r["Cost"]) THEN r["Cost"]
    ELSE NaN

\* C19: in the table summary returns, the Subtotal of a row is its Purchase QTY
\* times its Pkg Price when that is present and not null, else times its Cost
\* when that is present and not null, and null when neither is; a null
\* Purchase QTY gives a null product.
C19_SubtotalPrefersPkgPrice ==
    SummaryReturned =>
        \A P \in parts_db.parts :
            LET r == SummaryRow(P)
            IN  IF isnull(PriceOf(r)) \/ isnull(r["Purchase QTY"])
                THEN isnull(r["Subtotal"])
                ELSE r["Subtotal"] = Num(r["Purchase QTY"].v * PriceOf(r).v)

\* summary returned a row with both a Pkg Price and a different Cost and a
\* Purchase QTY above 0: the Subtotal is the product with the Pkg Price.
C19_Witness ==
    /\ SummaryReturned
    /\ \E P \in parts_db.parts :
          /\ {"Pkg Price", "Cost"} \subseteq DOMAIN SummaryRow(P)
          /\ SummaryRow(P)["Pkg Price"].kind = "num"
          /\ SummaryRow(P)["Cost"].kind = "num"
          /\ SummaryRow(P)["Cost"] # SummaryRow(P)["Pkg Price"]
          /\ SummaryRow(P)["Purchase QTY"].kind = "num"
          /\ SummaryRow(P)["Purchase QTY"].v > 0
          /\ SummaryRow(P)["Subtotal"] =
                Num(SummaryRow(P)["Purchase QTY"].v * SummaryRow(P)["Pkg Price"].v)

\* summary returned a row that falls back to the Cost: the Pkg Price column
\* is there but the cell is null.
C19_WitnessCost ==
    /\ SummaryReturned
    /\ \E P \in parts_db.parts :
          /\ {"Pkg Price", "Cost"} \subseteq DOMAIN SummaryRow(P)
          /\ isnull(SummaryRow(P)["Pkg Price"])
          /\ SummaryRow(P)["Cost"].kind = "num"
          /\ SummaryRow(P)["Subtotal"].kind = "num"
          /\ SummaryRow(P)["Subtotal"].v > 0

\* summary returned a table without price columns: a placed part has a null
\* Subtotal.
C19_WitnessNull ==
    /\ SummaryReturned
    /\ \E P \in parts_db.parts :
          /\ {"Pkg Price", "Cost"} \cap DOMAIN SummaryRow(P) = {}
          /\ SummaryRow(P)["Purchase QTY"].kind = "num"
          /\ isnull(SummaryRow(P)["Subtotal"])

\* What a child resolves to: itself, or the target of a link.
ResolvesToPart(c) == Target(c).cls = "Item"
ResolvesToAssembly(c) == Target(c).cls = "BOM"

\* C20: on the resolved tree, parts of an assembly is the list of its direct
\* children that are a part or a link to one, assemblies the list of those
\* that are an assembly or a link to one, both in child order and one level
\* deep; every child is in exactly one of the two lists.
C20_PartsAndAssembliesPartitionChildren ==
    Returned =>
        \A a \in Keys :
            /\ BOM_parts(a) = SelectSeq(children[a], ResolvesToPart)
            /\ BOM_assemblies(a) = SelectSeq(children[a], ResolvesToAssembly)
            /\ \A i \in 1..Len(children[a]) : IsPart(children[a][i]) # IsAssembly(children[a][i])

\* On a resolved tree one assembly has a part and a sub-assembly among its
\* children, and a link to a part is in the parts of an assembly.
C20_Witness ==
    /\ Returned
    /\ \E a, b \in Keys :
          /\ BOM_parts(a) # <<>>
          /\ BOM_assemblies(a) # <<>>
          /\ Len(BOM_parts(a)) + Len(BOM_assemblies(a)) = Len(children[a])
          /\ \E i \in 1..Len(BOM_parts(b)) : BOM_parts(b)[i].cls = "ItemLink"

\* The parts table has two rows with the same PN.
HasDuplicatePN ==
    \E i, j \in 1..Len(parts_db.df) : i < j /\ parts_db.df[i] = parts_db.df[j]

\* C21: a parts table with two rows of the same PN is never made into a
\* PartsDB (the load raises and no part is registered); in every PartsDB each
\* part number has exactly one Item.
C21_DuplicatePNIsRefused ==
    /\ HasDuplicatePN => (parts_db.parts = {} /\ pc \in {"init", "error"})
    /\ \A P \in parts_db.parts : Cardinality({e \in parts_db.kwargs : e.PN = P}) = 1

\* C22 as stated: after resolve every assembly has the parts database as its
\* parts_db, the sub-assemblies as well as the root.
C22_EveryAssemblyHasPartsDB ==
    Returned => \A a \in Keys : bom_parts_db[a]

\* C22, amended: after resolve the returned root, and no other assembly, has
\* the parts database as its parts_db; a sub-assembly's parts_db is None.
C22_OnlyTheRootHasPartsDB ==
    Returned => \A a \in Keys : bom_parts_db[a] <=> a = result

\* resolve returned a tree with a sub-assembly below the root: the root has
\* the parts database, the sub-assembly has none.
C22_Witness ==
    /\ Returned
    /\ bom_parts_db[result]
    /\ \E a \in Keys : parent[Node("BOM", a)] = result /\ ~bom_parts_db[a]

\* The assemblies named by the tables of a set of assemblies, by the tables of
\* those, and so on for k further steps: read from the input tables alone.
RECURSIVE InputReach(_, _)
InputReach(S, k) ==
    LET named == {b \in Keys : \E a \in S : RowCount(a, b) > 0}
    IN  IF k = 0 THEN named ELSE named \cup InputReach(named, k - 1)
\* No assembly is named, directly or through other tables, below itself.
Acyclic == \A a \in Keys : a \notin InputReach({a}, Len(assemblies))
\* The assemblies no table names.
Unreferenced == {a \in Keys : Refs(a) = {}}

\* The total of part P below assembly a as the input tables give it, from row
\* i of a's table on: the row's QTY for a row of P, the row's QTY times the
\* total below the named assembly for a row of an assembly.  No processing
\* order enters it.
RECURSIVE InputTotal(_, _, _)
InputTotal(a, P, i) ==
    IF i > Len(df[a]) THEN 0
    ELSE (IF df[a][i].PN \in Keys THEN df[a][i].QTY * InputTotal(df[a][i].PN, P, 1)
          ELSE IF df[a][i].PN = P THEN df[a][i].QTY
          ELSE 0)
         + InputTotal(a, P, i + 1)

\* C23: for acyclic tables with exactly one unreferenced assembly and each PN
\* at most once per table, the root parse_parent_child returns is the
\* unreferenced assembly and aggregate of it returns for every part the total
\* the input tables give, wherever the tables stand in the processing order:
\* neither depends on which placement owns a node and which ones are links.
\* The tables are processed in the order of `assemblies`; every table may hold
\* every row, so every order of a given set of tables occurs.
C23_RootAndTotalsAreOrderFree ==
    (Acyclic /\ Cardinality(Unreferenced) = 1 /\ EachPNOncePerTable) =>
        /\ Returned => result \in Unreferenced
        /\ (ret.op = "aggregate" /\ ret.self = result) =>
              /\ ret.exc = None
              /\ \A P \in parts_db.parts :
                    LET hits == {e \in ret.dict : e.key.PN = P}
                    IN  IF InputTotal(result, P, 1) = 0 THEN hits = {}
                        ELSE /\ hits # {}
                             /\ \A e \in hits : e.count = InputTotal(result, P, 1)

\* aggregate returned on a root whose table is not the first processed, in a
\* tree where a node used twice is owned by the table processed first and is
\* a link in the root's own children.
C23_Witness ==
    /\ Acyclic /\ Cardinality(Unreferenced) = 1 /\ EachPNOncePerTable
    /\ AggregateReturned
    /\ ret.self = result
    /\ result # assemblies[1]
    /\ \E i \in 1..Len(children[result]) : children[result][i].cls = "ItemLink"
    /\ \E e \in ret.dict : e.count > 2

====
